---- MODULE Spec2Model ----
(***************************************************************************)
(* cubeclient: the managed release cache of AsyncNativeApiClient           *)
(* (endpoints.py), the TaskAwaiter / EventWithValue single-flight register *)
(* (utils.py) it is built on, and the lazily filled page list              *)
(* DynamicPaginatedResponse (models.py).                                   *)
(*                                                                         *)
(* Spec      : worker-pool tasks running _get_release_managed, one atomic  *)
(*             step per lock region / blocking call.                       *)
(* SpecPaged : threads running DynamicPaginatedResponse._fetch_page on one *)
(*             shared response object, one step per test and per store.    *)
(* SpecSeq, SpecScenario : one thread using a DynamicPaginatedResponse,    *)
(*             every operation run to its end.                             *)
(* SpecLookup, SpecAgain : the managed calls beside a caller that runs     *)
(*             get_release_managed_noblock, or a second set_value.         *)
(* SpecRemote : the same, with the remote collection changing its size.   *)
(* SpecWrap  : calls of the wrappers _AsyncMeta generates.                 *)
(* SpecLive  : Spec for every pool size, the fetch always returning, with  *)
(*             weak fairness of the worker threads' steps.                 *)
(* SpecMerge : page responses merged by the loop of _fetch_page into two   *)
(*             responses constructed alike, in opposite orders.            *)
(* SpecVersioned : calls of BaseNativeApiClient.versioned_cubes.           *)
(* SpecRelease : reads of the lazily loaded attributes of a CubeRelease.   *)
(***************************************************************************)
EXTENDS Integers, Sequences, FiniteSets, TLC

\* ---------------------------------------------------------------- bounds
\* number of get_release_managed calls submitted in one behaviour
NumCalls == 3
\* max_workers of the ThreadPoolExecutor (an int argument of the constructor)
PoolSize == 2
\* largest collection size the endpoint reports
MaxCount == 3
\* largest page size (limit) a response is constructed with
MaxLimit == 2

\* number of calls of generated wrappers and of logout in one behaviour
NumWrapCalls == 2

Calls == 1..NumCalls
WCalls == 1..NumWrapCalls
\* release ids passed to get_release_managed
Ids == {7, 8}
\* the two threads that share one DynamicPaginatedResponse
Threads == {1, 2}

\* ---------------------------------------------------------------- values
\* Python objects are told apart by identity: obj is the allocation number.
None == [kind |-> "None", rid |-> 0, obj |-> 0]
CubeRelease(id, n) == [kind |-> "CubeRelease", rid |-> id, obj |-> n]
HTTPError(id) == [kind |-> "HTTPError", rid |-> id, obj |-> 0]
\* a Future that has not completed yet
Pending == [kind |-> "Pending", rid |-> 0, obj |-> 0]
\* no EventWithValue bound to the local variable `event`
NoEvent == 0

VARIABLES
    \* --- AsyncNativeApiClient / TaskAwaiter
    pc,            \* position of each submitted call in _get_release_managed
    arg,           \* release_id of each call
    queue,         \* work queue of the ThreadPoolExecutor (FIFO)
    release_map,   \* AsyncNativeApiClient._release_map : id -> release or None
    task_map,      \* TaskAwaiter._map : key -> index into events, 0 if absent
    events,        \* the EventWithValue objects created so far
    event,         \* local `event` of each call (index into events)
    in_progress,   \* local `in_progress` of each call
    release,       \* local `release` of each call
    result,        \* outcome of the Future / Promise of each call
    fetches,       \* number of self._wrapping.release(id) calls started, per id
    objects,       \* number of CubeRelease objects deserialized so far
    late,          \* per id: a call was submitted after a call for it completed
    workers,       \* number of worker threads of the ThreadPoolExecutor
    \* --- DynamicPaginatedResponse
    count,         \* self._count
    limit,         \* self._limit
    items,         \* self._items : 0-based index i is items[i + 1]
    tpc,           \* position of each thread in _fetch_page
    tindex,        \* argument `index` of _fetch_page, per thread
    tpage,         \* the serialized page the thread's loop iterates over
    toff,          \* offset_index of the enumerate loop, per thread
    tret,          \* what the thread's last __getitem__ returned or raised
    endpoint_calls,\* number of self._endpoint calls made
    remote,        \* number of records the remote collection holds now
    \* --- one caller running operations to their end on its own thread
    op,            \* the operation the caller ran last, with its argument
    ret,           \* what that operation returned or raised
    yielded,       \* the entities that operation's iterator yielded, in order
    \* --- the wrappers _AsyncMeta generates
    wcalls,        \* per call: position, wrapper called, arguments, outcome
    wqueue,        \* work items the wrappers submitted to the pool (FIFO)
    synclog,       \* the invocations made on the wrapped synchronous client
    \* --- the synchronous client and a CubeRelease it deserialized
    vc_stored,     \* BaseNativeApiClient._versioned_cubes
    vc_calls,      \* number of _get_versioned_cubes calls made
    loaded,        \* the lazily loaded fields of the CubeRelease, by attribute
    detail,        \* keys of the record the server returns for the release
    release_fetches, \* number of synchronous.release calls made by _fetch
    \* --- a second DynamicPaginatedResponse, constructed like the first
    mirror         \* its self._items

managedVars == <<pc, arg, queue, release_map, task_map, events, event,
                 in_progress, release, result, fetches, objects, late,
                 workers>>
pagedVars == <<count, limit, items, tpc, tindex, tpage, toff, tret,
               endpoint_calls, remote>>
seqVars == <<op, ret, yielded>>
wrapVars == <<wcalls, wqueue, synclog>>
syncVars == <<vc_stored, vc_calls, loaded, detail, release_fetches>>
vars == <<managedVars, pagedVars, seqVars, wrapVars, syncVars, mirror>>

\* the attributes of CubeRelease that load on access
LazyAttributes == {"created_at", "intended_size", "cube", "versioned_cube",
                   "constrained_nodes", "group_map", "infinites"}

\* BaseNativeApiClient.__init__, line 72 : self._versioned_cubes = None; and
\* no CubeRelease deserialized yet
NoSync ==
    /\ vc_stored = None
    /\ vc_calls = 0
    /\ loaded = [a \in LazyAttributes |-> None]
    /\ detail = {}
    /\ release_fetches = 0

\* ------------------------------------------------------------ AsyncFacade
\* no wrapper has been called
NoWrapped ==
    /\ wcalls = [w \in WCalls |->
                    [pc |-> "idle", name |-> "", arg |-> 0, res |-> Pending]]
    /\ wqueue = <<>>
    /\ synclog = <<>>

\* AsyncNativeApiClient.__init__, lines 701-703 : empty cache, empty register;
\* nothing submitted yet
InitClient ==
    /\ pc = [c \in Calls |-> "idle"]
    /\ arg = [c \in Calls |-> 0]
    /\ queue = <<>>
    /\ release_map = [i \in Ids |-> None]
    /\ task_map = [i \in Ids |-> NoEvent]
    /\ events = <<>>
    /\ event = [c \in Calls |-> NoEvent]
    /\ in_progress = [c \in Calls |-> FALSE]
    /\ release = [c \in Calls |-> None]
    /\ result = [c \in Calls |-> Pending]
    /\ fetches = [i \in Ids |-> 0]
    /\ objects = 0
    /\ late = [i \in Ids |-> FALSE]

\* AsyncNativeApiClient.__init__ with executor = PoolSize
InitManaged ==
    /\ NoWrapped
    /\ NoSync
    /\ workers = PoolSize
    /\ InitClient

\* a call whose Future has completed (resolved or rejected)
Completed(c) == pc[c] \in {"done", "failed"}
\* a call that occupies a worker thread of the pool
Running(c) == pc[c] \notin {"idle", "queued", "done", "failed"}
Busy == Cardinality({c \in Calls : Running(c)})

\* get_release_managed : submit _get_release_managed(release_id) to the pool
Submit(c, id) ==
    /\ pc[c] = "idle"
    /\ pc' = [pc EXCEPT ![c] = "queued"]
    /\ arg' = [arg EXCEPT ![c] = id]
    /\ queue' = Append(queue, c)
    /\ late' = [late EXCEPT ![id] =
                   @ \/ (\E d \in Calls : arg[d] = id /\ Completed(d))]
    /\ UNCHANGED <<release_map, task_map, events, event, in_progress,
                   release, result, fetches, objects>>
    /\ UNCHANGED <<workers, pagedVars, seqVars, wrapVars, syncVars, mirror>>

\* ThreadPoolExecutor : a free worker takes the oldest queued work item
Start(c) ==
    /\ queue # <<>>
    /\ Head(queue) = c
    /\ Busy < workers
    /\ queue' = Tail(queue)
    /\ pc' = [pc EXCEPT ![c] = "check"]
    /\ UNCHANGED <<arg, release_map, task_map, events, event, in_progress,
                   release, result, fetches, objects, late>>
    /\ UNCHANGED <<workers, pagedVars, seqVars, wrapVars, syncVars, mirror>>

\* the lookup that misses whatever the cache holds
noblock_always_miss(id) == None

\* get_release_managed_noblock : the cache lookup under _release_lock
get_release_managed_noblock(id) == release_map[id]

\* the cache check that never finds the release
CheckCache_always_miss(c) ==
    /\ pc[c] = "check"
    /\ pc' = [pc EXCEPT ![c] = "acquire"]
    /\ UNCHANGED <<arg, queue, release_map, task_map, events, event,
                   in_progress, release, result, fetches, objects, late>>
    /\ UNCHANGED <<workers, pagedVars, seqVars, wrapVars, syncVars, mirror>>

\* _get_release_managed, lines 715-717 : return the cached release, if any
CheckCache(c) ==
    /\ pc[c] = "check"
    /\ LET found == get_release_managed_noblock(arg[c]) IN
         IF found # None
         THEN /\ pc' = [pc EXCEPT ![c] = "done"]
              /\ release' = [release EXCEPT ![c] = found]
              /\ result' = [result EXCEPT ![c] = found]
         ELSE /\ pc' = [pc EXCEPT ![c] = "acquire"]
              /\ UNCHANGED <<release, result>>
    /\ UNCHANGED <<arg, queue, release_map, task_map, events, event,
                   in_progress, fetches, objects, late>>
    /\ UNCHANGED <<workers, pagedVars, seqVars, wrapVars, syncVars, mirror>>

\* get_condition that leaves the new event out of _map: every caller is handed
\* a private event and told nothing is in progress
get_condition_no_register(c) ==
    /\ pc[c] = "acquire"
    /\ events' = Append(events,
                   [key |-> arg[c], value |-> None, flag |-> FALSE])
    /\ event' = [event EXCEPT ![c] = Len(events) + 1]
    /\ in_progress' = [in_progress EXCEPT ![c] = FALSE]
    /\ pc' = [pc EXCEPT ![c] = "fetch"]
    /\ UNCHANGED <<arg, queue, release_map, task_map, release, result,
                   fetches, objects, late>>
    /\ UNCHANGED <<workers, pagedVars, seqVars, wrapVars, syncVars, mirror>>

\* get_condition that returns the registered event with in_progress = False
get_condition_always_producer(c) ==
    /\ pc[c] = "acquire"
    /\ IF task_map[arg[c]] # NoEvent
       THEN /\ event' = [event EXCEPT ![c] = task_map[arg[c]]]
            /\ UNCHANGED <<task_map, events>>
       ELSE /\ events' = Append(events,
                           [key |-> arg[c], value |-> None, flag |-> FALSE])
            /\ task_map' = [task_map EXCEPT ![arg[c]] = Len(events) + 1]
            /\ event' = [event EXCEPT ![c] = Len(events) + 1]
    /\ in_progress' = [in_progress EXCEPT ![c] = FALSE]
    /\ pc' = [pc EXCEPT ![c] = "fetch"]
    /\ UNCHANGED <<arg, queue, release_map, release, result, fetches,
                   objects, late>>
    /\ UNCHANGED <<workers, pagedVars, seqVars, wrapVars, syncVars, mirror>>

\* get_condition under a lock that a producer keeps while it fetches: it
\* cannot run while any fetch is in flight
get_condition_held_across_fetch(c) ==
    /\ pc[c] = "acquire"
    /\ \A d \in Calls : pc[d] # "fetching"
    /\ IF task_map[arg[c]] # NoEvent
       THEN /\ event' = [event EXCEPT ![c] = task_map[arg[c]]]
            /\ in_progress' = [in_progress EXCEPT ![c] = TRUE]
            /\ pc' = [pc EXCEPT ![c] = "wait"]
            /\ UNCHANGED <<task_map, events>>
       ELSE /\ events' = Append(events,
                           [key |-> arg[c], value |-> None, flag |-> FALSE])
            /\ task_map' = [task_map EXCEPT ![arg[c]] = Len(events) + 1]
            /\ event' = [event EXCEPT ![c] = Len(events) + 1]
            /\ in_progress' = [in_progress EXCEPT ![c] = FALSE]
            /\ pc' = [pc EXCEPT ![c] = "fetch"]
    /\ UNCHANGED <<arg, queue, release_map, release, result, fetches,
                   objects, late>>
    /\ UNCHANGED <<workers, pagedVars, seqVars, wrapVars, syncVars, mirror>>

\* TaskAwaiter.get_condition, under TaskAwaiter._lock : the registered event
\* and True, or a new registered event and False
get_condition(c) ==
    /\ pc[c] = "acquire"
    /\ IF task_map[arg[c]] # NoEvent
       THEN /\ event' = [event EXCEPT ![c] = task_map[arg[c]]]
            /\ in_progress' = [in_progress EXCEPT ![c] = TRUE]
            /\ pc' = [pc EXCEPT ![c] = "wait"]
            /\ UNCHANGED <<task_map, events>>
       ELSE /\ events' = Append(events,
                           [key |-> arg[c], value |-> None, flag |-> FALSE])
            /\ task_map' = [task_map EXCEPT ![arg[c]] = Len(events) + 1]
            /\ event' = [event EXCEPT ![c] = Len(events) + 1]
            /\ in_progress' = [in_progress EXCEPT ![c] = FALSE]
            /\ pc' = [pc EXCEPT ![c] = "fetch"]
    /\ UNCHANGED <<arg, queue, release_map, release, result, fetches,
                   objects, late>>
    /\ UNCHANGED <<workers, pagedVars, seqVars, wrapVars, syncVars, mirror>>

\* threading.Event.wait : returns once the event's flag is set
Wait(c) ==
    /\ pc[c] = "wait"
    /\ events[event[c]].flag
    /\ pc' = [pc EXCEPT ![c] = "read"]
    /\ UNCHANGED <<arg, queue, release_map, task_map, events, event,
                   in_progress, release, result, fetches, objects, late>>
    /\ UNCHANGED <<workers, pagedVars, seqVars, wrapVars, syncVars, mirror>>

\* _get_release_managed, line 723 : return event.value
ReadValue(c) ==
    /\ pc[c] = "read"
    /\ result' = [result EXCEPT ![c] = events[event[c]].value]
    /\ pc' = [pc EXCEPT ![c] = "done"]
    /\ UNCHANGED <<arg, queue, release_map, task_map, events, event,
                   in_progress, release, fetches, objects, late>>
    /\ UNCHANGED <<workers, pagedVars, seqVars, wrapVars, syncVars, mirror>>

\* _get_release_managed, line 725 : the synchronous fetch is entered
FetchBegin(c) ==
    /\ pc[c] = "fetch"
    /\ fetches' = [fetches EXCEPT ![arg[c]] = @ + 1]
    /\ pc' = [pc EXCEPT ![c] = "fetching"]
    /\ UNCHANGED <<arg, queue, release_map, task_map, events, event,
                   in_progress, release, result, objects, late>>
    /\ UNCHANGED <<workers, pagedVars, seqVars, wrapVars, syncVars, mirror>>

\* StaticNativeApiClient.release returns a newly deserialized CubeRelease
FetchReturn(c) ==
    /\ pc[c] = "fetching"
    /\ objects' = objects + 1
    /\ release' = [release EXCEPT ![c] = CubeRelease(arg[c], objects + 1)]
    /\ pc' = [pc EXCEPT ![c] = "insert"]
    /\ UNCHANGED <<arg, queue, release_map, task_map, events, event,
                   in_progress, result, fetches, late>>
    /\ UNCHANGED <<workers, pagedVars, seqVars, wrapVars, syncVars, mirror>>

\* StaticNativeApiClient.release raises (_make_request failed): the exception
\* leaves _get_release_managed and rejects the Future; nothing is published
FetchRaise(c) ==
    /\ pc[c] = "fetching"
    /\ result' = [result EXCEPT ![c] = HTTPError(arg[c])]
    /\ pc' = [pc EXCEPT ![c] = "failed"]
    /\ UNCHANGED <<arg, queue, release_map, task_map, events, event,
                   in_progress, release, fetches, objects, late>>
    /\ UNCHANGED <<workers, pagedVars, seqVars, wrapVars, syncVars, mirror>>

\* the producer that goes on to publish without storing into the cache
CacheInsert_no_store(c) ==
    /\ pc[c] = "insert"
    /\ pc' = [pc EXCEPT ![c] = "store"]
    /\ UNCHANGED <<arg, queue, release_map, task_map, events, event,
                   in_progress, release, result, fetches, objects, late>>
    /\ UNCHANGED <<workers, pagedVars, seqVars, wrapVars, syncVars, mirror>>

\* _get_release_managed, lines 726-727 : store into the cache under the lock
CacheInsert(c) ==
    /\ pc[c] = "insert"
    /\ release_map' = [release_map EXCEPT ![arg[c]] = release[c]]
    /\ pc' = [pc EXCEPT ![c] = "store"]
    /\ UNCHANGED <<arg, queue, task_map, events, event, in_progress,
                   release, result, fetches, objects, late>>
    /\ UNCHANGED <<workers, pagedVars, seqVars, wrapVars, syncVars, mirror>>

\* set_value that fires the completion signal where it should store the value
SetValueStore_signal_first(c) ==
    /\ pc[c] = "store"
    /\ events' = [events EXCEPT ![event[c]].flag = TRUE]
    /\ pc' = [pc EXCEPT ![c] = "delkey"]
    /\ UNCHANGED <<arg, queue, release_map, task_map, event, in_progress,
                   release, result, fetches, objects, late>>
    /\ UNCHANGED <<workers, pagedVars, seqVars, wrapVars, syncVars, mirror>>

\* the producer returning its release without calling set_value
SetValueStore_skips_publish(c) ==
    /\ pc[c] = "store"
    /\ result' = [result EXCEPT ![c] = release[c]]
    /\ pc' = [pc EXCEPT ![c] = "done"]
    /\ UNCHANGED <<arg, queue, release_map, task_map, events, event,
                   in_progress, release, fetches, objects, late>>
    /\ UNCHANGED <<workers, pagedVars, seqVars, wrapVars, syncVars, mirror>>

\* EventWithValue.set_value, line 20 : self.value = value
SetValueStore(c) ==
    /\ pc[c] = "store"
    /\ events' = [events EXCEPT ![event[c]].value = release[c]]
    /\ pc' = [pc EXCEPT ![c] = "delkey"]
    /\ UNCHANGED <<arg, queue, release_map, task_map, event, in_progress,
                   release, result, fetches, objects, late>>
    /\ UNCHANGED <<workers, pagedVars, seqVars, wrapVars, syncVars, mirror>>

\* del_key that leaves the entry in _map
del_key_keeps_entry(c) ==
    /\ pc[c] = "delkey"
    /\ pc' = [pc EXCEPT ![c] = "set"]
    /\ UNCHANGED <<arg, queue, release_map, task_map, events, event,
                   in_progress, release, result, fetches, objects, late>>
    /\ UNCHANGED <<workers, pagedVars, seqVars, wrapVars, syncVars, mirror>>

\* set_value that fires the completion signal where it should remove the key
del_key_signals_first(c) ==
    /\ pc[c] = "delkey"
    /\ events' = [events EXCEPT ![event[c]].flag = TRUE]
    /\ pc' = [pc EXCEPT ![c] = "set"]
    /\ UNCHANGED <<arg, queue, release_map, task_map, event, in_progress,
                   release, result, fetches, objects, late>>
    /\ UNCHANGED <<workers, pagedVars, seqVars, wrapVars, syncVars, mirror>>

\* TaskAwaiter.del_key, under TaskAwaiter._lock : del self._map[key]
\* (KeyError when the key is not registered)
del_key(c) ==
    /\ pc[c] = "delkey"
    /\ LET key == events[event[c]].key IN
         IF task_map[key] # NoEvent
         THEN /\ task_map' = [task_map EXCEPT ![key] = NoEvent]
              /\ pc' = [pc EXCEPT ![c] = "set"]
              /\ UNCHANGED result
         ELSE /\ result' = [result EXCEPT ![c] =
                               [kind |-> "KeyError", rid |-> key, obj |-> 0]]
              /\ pc' = [pc EXCEPT ![c] = "failed"]
              /\ UNCHANGED task_map
    /\ UNCHANGED <<arg, queue, release_map, events, event, in_progress,
                   release, fetches, objects, late>>
    /\ UNCHANGED <<workers, pagedVars, seqVars, wrapVars, syncVars, mirror>>

\* set() that wakes the threads blocked in wait() and leaves no flag behind
SetValueSet_no_flag(c) ==
    /\ pc[c] = "set"
    /\ result' = [result EXCEPT ![c] = release[c]]
    /\ pc' = [pc EXCEPT ![c] = "done"]
    /\ UNCHANGED <<arg, queue, release_map, task_map, events, event,
                   in_progress, release, fetches, objects, late>>
    /\ UNCHANGED <<workers, pagedVars, seqVars, wrapVars, syncVars, mirror>>

\* EventWithValue.set_value, line 22 : super().set() wakes the waiters; then
\* _get_release_managed returns release
SetValueSet(c) ==
    /\ pc[c] = "set"
    /\ events' = [events EXCEPT ![event[c]].flag = TRUE]
    /\ result' = [result EXCEPT ![c] = release[c]]
    /\ pc' = [pc EXCEPT ![c] = "done"]
    /\ UNCHANGED <<arg, queue, release_map, task_map, event, in_progress,
                   release, fetches, objects, late>>
    /\ UNCHANGED <<workers, pagedVars, seqVars, wrapVars, syncVars, mirror>>

\* a caller runs get_release_managed_noblock(id) on its own thread, lines
\* 710-712 : under _release_lock, return self._release_map.get(id, None)
NoBlock(id) ==
    /\ op' = [name |-> "noblock", index |-> id]
    /\ ret' = get_release_managed_noblock(id)
    /\ UNCHANGED yielded
    /\ UNCHANGED <<managedVars, pagedVars, wrapVars, syncVars, mirror>>

Next ==
    \E c \in Calls :
        \/ \E id \in Ids : Submit(c, id)
        \/ Start(c)
        \/ CheckCache(c)
        \/ get_condition(c)
        \/ Wait(c)
        \/ ReadValue(c)
        \/ FetchBegin(c)
        \/ FetchReturn(c)
        \/ FetchRaise(c)
        \/ CacheInsert(c)
        \/ SetValueStore(c)
        \/ del_key(c)
        \/ SetValueSet(c)

\* the steps call c makes on a worker thread when the synchronous fetch
\* returns
Worker(c) ==
    \/ Start(c)
    \/ CheckCache(c)
    \/ get_condition(c)
    \/ Wait(c)
    \/ ReadValue(c)
    \/ FetchBegin(c)
    \/ FetchReturn(c)
    \/ CacheInsert(c)
    \/ SetValueStore(c)
    \/ del_key(c)
    \/ SetValueSet(c)

\* the calls are numbered in the order of their submission, and the first of
\* them asks for the smallest id
NextLive ==
    \E c \in Calls :
        \/ \E id \in Ids :
               /\ \A d \in 1..(c - 1) : pc[d] # "idle"
               /\ c = 1 => \A i \in Ids : id <= i
               /\ Submit(c, id)
        \/ Start(c)
        \/ CheckCache(c)
        \/ get_condition(c)
        \/ Wait(c)
        \/ ReadValue(c)
        \/ FetchBegin(c)
        \/ FetchReturn(c)
        \/ CacheInsert(c)
        \/ SetValueStore(c)
        \/ del_key(c)
        \/ SetValueSet(c)

\* the calls submitted beside the caller that runs the lookups
LookupCalls == 1..(NumCalls - 1)

NextLookup ==
    \/ \E id \in Ids : NoBlock(id)
    \/ \E c \in LookupCalls :
           \/ \E id \in Ids : Submit(c, id)
           \/ Start(c)
           \/ CheckCache(c)
           \/ get_condition(c)
           \/ Wait(c)
           \/ ReadValue(c)
           \/ FetchBegin(c)
           \/ FetchReturn(c)
           \/ FetchRaise(c)
           \/ CacheInsert(c)
           \/ SetValueStore(c)
           \/ del_key(c)
           \/ SetValueSet(c)

\* ------------------------------------------------ the generated wrappers
\* AsyncClient.__dict__ : the names declared with @abstractmethod in the body
\* of AsyncClient, in the order of the class body
AsyncClientAbstract ==
    <<"download_db_from_remote", "report_error", "login", "logout", "db_info",
      "min_client_version", "release", "versioned_cubes", "versioned_cube",
      "patch", "patches", "preview_patch", "verbose_patch",
      "distribution_possibilities", "search", "limited_session",
      "limited_sessions", "limited_pool", "limited_deck",
      "upload_limited_deck", "tournament", "scheduled_match",
      "scheduled_matches", "rating_history_for_cardboard_cubeable",
      "rating_history_for_node", "ratings", "ratings_for_versioned_cube",
      "ratings_for_release">>
\* the operations the contract declares
Contract == {AsyncClientAbstract[k] : k \in 1..Len(AsyncClientAbstract)}

\* _AsyncMeta.excluded
excluded == {"host", "db", "token", "user", "logout"}

\* the public operations BaseNativeApiClient / StaticNativeApiClient define
SyncImplemented ==
    {"download_db_from_remote", "login", "logout", "db_info",
     "min_client_version", "release", "versioned_cube", "versioned_cubes",
     "patch", "patches", "preview_patch", "verbose_patch",
     "distribution_possibilities", "search", "limited_session",
     "limited_sessions", "limited_pool", "upload_limited_deck",
     "limited_deck", "tournament", "scheduled_match", "scheduled_matches",
     "rating_history_for_cardboard_cubeable", "rating_history_for_node",
     "ratings", "ratings_for_versioned_cube", "ratings_for_release"}
\* the abstract methods of ApiClient: a name the synchronous client does not
\* define is found there by getattr, as a method whose body is `pass`
ApiClientAbstract == Contract
SyncAttributes == SyncImplemented \cup ApiClientAbstract

\* a closure that reads the loop variable when it is called: every wrapper
\* looks up the name the loop ended with
wrap_late_binding(name) == AsyncClientAbstract[Len(AsyncClientAbstract)]

\* _AsyncMeta._wrap(name) : the name that the closure _wrapped looks up on
\* self._wrapping
wrap(name) == name

\* _AsyncMeta.__new__ : the attributes added to AsyncNativeApiClient, one
\* wrapper for every abstract name of AsyncClient that is not excluded
Attributes == [name \in Contract \ excluded |-> wrap(name)]

\* what an invocation on the synchronous client returns or raises; n is the
\* number of the invocation
Returned(n) == [kind |-> "Returned", rid |-> 0, obj |-> n]
Raised(n) == [kind |-> "Raised", rid |-> 0, obj |-> n]
AttributeError == [kind |-> "AttributeError", rid |-> 0, obj |-> 0]

WRunning == Cardinality({w \in WCalls : wcalls[w].pc = "running"})

\* the wrappers and arguments the callers use
CalledWrappers == {"login", "report_error"}
WArgs == {1, 2}

\* _wrapped(self, *args), lines 665-672 : getattr(self._wrapping, name) on
\* the calling thread, then submit to the pool; the Promise is pending
CallWrapper(w, name, a) ==
    /\ wcalls[w].pc = "idle"
    /\ name \in DOMAIN Attributes
    /\ IF Attributes[name] \in SyncAttributes
       THEN /\ wcalls' = [wcalls EXCEPT ![w] =
                            [pc |-> "queued", name |-> name, arg |-> a,
                             res |-> Pending]]
            /\ wqueue' = Append(wqueue, w)
       ELSE /\ wcalls' = [wcalls EXCEPT ![w] =
                            [pc |-> "done", name |-> name, arg |-> a,
                             res |-> AttributeError]]
            /\ UNCHANGED wqueue
    /\ UNCHANGED synclog
    /\ UNCHANGED <<managedVars, pagedVars, seqVars, syncVars, mirror>>

\* ThreadPoolExecutor : a free worker takes the oldest work item
WStart(w) ==
    /\ wqueue # <<>>
    /\ Head(wqueue) = w
    /\ WRunning < workers
    /\ wqueue' = Tail(wqueue)
    /\ wcalls' = [wcalls EXCEPT ![w].pc = "running"]
    /\ UNCHANGED synclog
    /\ UNCHANGED <<managedVars, pagedVars, seqVars, syncVars, mirror>>

\* the worker invokes the bound method with the arguments and it returns; the
\* Future, and with it the Promise, resolves to the returned value.  A name
\* found only as the abstract method of ApiClient returns None
WReturn(w) ==
    /\ wcalls[w].pc = "running"
    /\ LET target == Attributes[wcalls[w].name]
           value == IF target \in SyncImplemented
                    THEN Returned(Len(synclog) + 1) ELSE None
       IN /\ synclog' = Append(synclog,
                           [name |-> target, arg |-> wcalls[w].arg, by |-> w,
                            thread |-> "pool", outcome |-> value])
          /\ wcalls' = [wcalls EXCEPT ![w].pc = "done", ![w].res = value]
    /\ UNCHANGED wqueue
    /\ UNCHANGED <<managedVars, pagedVars, seqVars, syncVars, mirror>>

\* the worker invokes the bound method with the arguments and it raises; the
\* Future, and with it the Promise, is rejected with the exception
WRaise(w) ==
    /\ wcalls[w].pc = "running"
    /\ Attributes[wcalls[w].name] \in SyncImplemented
    /\ LET failure == Raised(Len(synclog) + 1) IN
          /\ synclog' = Append(synclog,
                           [name |-> Attributes[wcalls[w].name],
                            arg |-> wcalls[w].arg, by |-> w,
                            thread |-> "pool", outcome |-> failure])
          /\ wcalls' = [wcalls EXCEPT ![w].pc = "done", ![w].res = failure]
    /\ UNCHANGED wqueue
    /\ UNCHANGED <<managedVars, pagedVars, seqVars, syncVars, mirror>>

\* AsyncNativeApiClient.logout, lines 768-769 : self._wrapping.logout() on
\* the calling thread
Logout(w) ==
    /\ wcalls[w].pc = "idle"
    /\ synclog' = Append(synclog,
                     [name |-> "logout", arg |-> 0, by |-> w,
                      thread |-> "caller", outcome |-> None])
    /\ wcalls' = [wcalls EXCEPT ![w] =
                     [pc |-> "done", name |-> "logout", arg |-> 0,
                      res |-> None]]
    /\ UNCHANGED wqueue
    /\ UNCHANGED <<managedVars, pagedVars, seqVars, syncVars, mirror>>

NextWrap ==
    \E w \in WCalls :
        \/ \E name \in CalledWrappers, a \in WArgs : CallWrapper(w, name, a)
        \/ WStart(w)
        \/ WReturn(w)
        \/ WRaise(w)
        \/ Logout(w)

\* -------------------------------------------------- DynamicPaginatedResponse
\* the single caller has run no operation yet
NoCaller ==
    /\ op = [name |-> "none", index |-> 0]
    /\ ret = None
    /\ yielded = <<>>
    /\ mirror = <<>>

\* the response object before any construction (the managed-cache behaviours
\* never touch it)
InitPagedIdle ==
    /\ count = 0
    /\ limit = 1
    /\ items = <<>>
    /\ tpc = [t \in Threads |-> "idle"]
    /\ tindex = [t \in Threads |-> 0]
    /\ tpage = [t \in Threads |-> <<>>]
    /\ toff = [t \in Threads |-> 0]
    /\ tret = [t \in Threads |-> None]
    /\ endpoint_calls = 0
    /\ remote = 0
    /\ NoCaller

Init == InitManaged /\ InitPagedIdle

Spec == Init /\ [][Next]_vars

\* the value a holder of an already published handle passes to a second
\* set_value: an object that is not the value published first
Second(e) == HTTPError(events[e].key)
KeyError(key) == [kind |-> "KeyError", rid |-> key, obj |-> 0]

\* a holder of handle e, which has been published, calls e.set_value again on
\* its own thread; EventWithValue.set_value, line 20 : self.value = value
SetValueAgain(e) ==
    /\ op.name = "none"
    /\ events[e].flag
    /\ events' = [events EXCEPT ![e].value = Second(e)]
    /\ op' = [name |-> "del_key", index |-> e]
    /\ ret' = Pending
    /\ UNCHANGED <<pc, arg, queue, release_map, task_map, event, in_progress,
                   release, result, fetches, objects, late>>
    /\ UNCHANGED <<workers, pagedVars, yielded, wrapVars, syncVars, mirror>>

\* the second set_value, line 21 : self._task_awaiter.del_key(self._key),
\* which is del self._map[key] under the lock; KeyError leaves set_value
DelKeyAgain ==
    /\ op.name = "del_key"
    /\ LET key == events[op.index].key IN
         IF task_map[key] # NoEvent
         THEN /\ task_map' = [task_map EXCEPT ![key] = NoEvent]
              /\ op' = [op EXCEPT !.name = "set"]
              /\ UNCHANGED ret
         ELSE /\ ret' = KeyError(key)
              /\ op' = [op EXCEPT !.name = "set_value"]
              /\ UNCHANGED task_map
    /\ UNCHANGED <<pc, arg, queue, release_map, events, event, in_progress,
                   release, result, fetches, objects, late>>
    /\ UNCHANGED <<workers, pagedVars, yielded, wrapVars, syncVars, mirror>>

\* the second set_value, line 22 : super().set(), and set_value returns None
SetAgain ==
    /\ op.name = "set"
    /\ events' = [events EXCEPT ![op.index].flag = TRUE]
    /\ op' = [op EXCEPT !.name = "set_value"]
    /\ ret' = None
    /\ UNCHANGED <<pc, arg, queue, release_map, task_map, event, in_progress,
                   release, result, fetches, objects, late>>
    /\ UNCHANGED <<workers, pagedVars, yielded, wrapVars, syncVars, mirror>>

NextAgain ==
    \/ \E e \in 1..Len(events) : SetValueAgain(e)
    \/ DelKeyAgain
    \/ SetAgain
    \/ \E c \in Calls :
           \/ \E id \in Ids : Submit(c, id)
           \/ Start(c)
           \/ CheckCache(c)
           \/ get_condition(c)
           \/ Wait(c)
           \/ ReadValue(c)
           \/ FetchBegin(c)
           \/ FetchReturn(c)
           \/ FetchRaise(c)
           \/ CacheInsert(c)
           \/ SetValueStore(c)
           \/ del_key(c)
           \/ SetValueSet(c)

\* managed calls in the pool while a holder of a published handle publishes
\* on it a second time
SpecAgain == Init /\ [][NextAgain]_vars

\* AsyncNativeApiClient.__init__ with executor = any number of workers from 1
\* to PoolSize
InitLive ==
    /\ NoWrapped
    /\ NoSync
    /\ workers \in 1..PoolSize
    /\ InitClient
    /\ InitPagedIdle

\* managed calls whose synchronous fetch always returns, in a pool of any
\* size; a worker thread that can take a step takes one in the end, and so
\* does a free worker with work queued
SpecLive ==
    /\ InitLive
    /\ [][NextLive]_vars
    /\ \A c \in Calls : WF_vars(Worker(c))

\* managed calls in the pool while a caller runs lookups on its own thread
SpecLookup == Init /\ [][NextLookup]_vars

\* callers of the generated wrappers and of logout
SpecWrap == Init /\ [][NextWrap]_vars

Min(a, b) == IF a < b THEN a ELSE b

\* the entity the serializer makes of raw record r of the page that endpoint
\* call number n returned: every serializer call makes a new object
Entity(r, n) == [kind |-> "Entity", rid |-> r, obj |-> n]
IndexError == [kind |-> "IndexError", rid |-> 0, obj |-> 0]

Max(a, b) == IF a < b THEN b ELSE a

\* the endpoint (external): the raw records offset .. offset+lim-1 of a remote
\* collection of n records, as far as they exist; records are named by their
\* position; a negative offset is served as offset 0
EndpointResults(n, offset, lim) ==
    LET first == Max(offset, 0) IN
    [k \in 1..(IF first < n THEN Min(lim, n - first) ELSE 0) |-> first + k - 1]

\* list(map(serializer, response["results"])) in the opposite order
Serialized_reversed(results, n) ==
    [k \in 1..Len(results) |-> Entity(results[Len(results) + 1 - k], n)]

\* map(self._serializer, results) over the results of endpoint call number n
Serialized(results, n) == [k \in 1..Len(results) |-> Entity(results[k], n)]

\* list indexing that serves an index beyond the end from the last position
PyIndex_clamped(i, n) ==
    IF 0 <= i /\ i < n THEN i + 1
    ELSE IF -n <= i /\ i < 0 THEN n + i + 1
    ELSE IF n > 0 /\ i >= n THEN n
    ELSE 0

\* Python list indexing: position (1-based) of index i in a list of length n,
\* 0 when it raises IndexError
PyIndex(i, n) ==
    IF 0 <= i /\ i < n THEN i + 1
    ELSE IF -n <= i /\ i < 0 THEN n + i + 1
    ELSE 0

\* slice assignment that inserts the new items and replaces none
SliceAssign_insert(lst, start, new) ==
    LET lo == Min(start, Len(lst))
    IN SubSeq(lst, 1, lo) \o new \o SubSeq(lst, lo + 1, Len(lst))

\* Python slice assignment lst[start : start + Len(new)] = new, start >= 0
SliceAssign(lst, start, new) ==
    LET lo == Min(start, Len(lst))
        hi == Min(start + Len(new), Len(lst))
    IN SubSeq(lst, 1, lo) \o new \o SubSeq(lst, hi + 1, Len(lst))

\* DynamicPaginatedResponse.__init__ : one endpoint call on a remote
\* collection of n records, count slots, the first page serialized into the
\* slots from offset on
Construct(n, offset, lim) ==
    /\ remote = n
    /\ count = n
    /\ limit = lim
    /\ items = SliceAssign([k \in 1..n |-> None], offset,
                           Serialized(EndpointResults(n, offset, lim), 1))
    /\ endpoint_calls = 1

\* no thread is inside __getitem__
ThreadsIdle ==
    /\ tpc = [t \in Threads |-> "idle"]
    /\ tindex = [t \in Threads |-> 0]
    /\ tpage = [t \in Threads |-> <<>>]
    /\ toff = [t \in Threads |-> 0]
    /\ tret = [t \in Threads |-> None]

InitPaged ==
    /\ InitManaged
    /\ \E n \in 0..MaxCount, lim \in 1..MaxLimit : \E offset \in 0..n :
           Construct(n, offset, lim)
    /\ ThreadsIdle
    /\ NoCaller

\* __getitem__, line 555 : self._items[index] is None ?
GetItem(t, index) ==
    /\ tpc[t] = "idle"
    /\ IF PyIndex(index, Len(items)) = 0
       THEN /\ tret' = [tret EXCEPT ![t] = IndexError]
            /\ UNCHANGED <<tpc, tindex>>
       ELSE IF items[PyIndex(index, Len(items))] = None
       THEN /\ tpc' = [tpc EXCEPT ![t] = "call"]
            /\ tindex' = [tindex EXCEPT ![t] = index]
            /\ tret' = [tret EXCEPT ![t] = None]
       ELSE /\ tret' = [tret EXCEPT ![t] = items[PyIndex(index, Len(items))]]
            /\ UNCHANGED <<tpc, tindex>>
    /\ UNCHANGED <<remote, count, limit, items, tpage, toff, endpoint_calls>>
    /\ UNCHANGED <<managedVars, seqVars, wrapVars, syncVars, mirror>>

\* _fetch_page, lines 542-546 : self._endpoint(index, self._limit)["results"],
\* mapped through the serializer
EndpointCall(t) ==
    /\ tpc[t] = "call"
    /\ endpoint_calls' = endpoint_calls + 1
    /\ tpage' = [tpage EXCEPT ![t] =
                    Serialized(EndpointResults(remote, tindex[t], limit),
                               endpoint_calls + 1)]
    /\ toff' = [toff EXCEPT ![t] = 0]
    /\ tpc' = [tpc EXCEPT ![t] = "loop"]
    /\ UNCHANGED <<remote, count, limit, items, tindex, tret>>
    /\ UNCHANGED <<managedVars, seqVars, wrapVars, syncVars, mirror>>

\* _fetch_page, lines 542-549 : the loop takes the next item and tests its slot
\* for None; IndexError breaks the loop
LoopTest(t) ==
    /\ tpc[t] = "loop"
    /\ IF toff[t] >= Len(tpage[t])
       THEN /\ tpc' = [tpc EXCEPT ![t] = "return"]
            /\ UNCHANGED toff
       ELSE LET slot == PyIndex(tindex[t] + toff[t], Len(items)) IN
              IF slot = 0
              THEN /\ tpc' = [tpc EXCEPT ![t] = "return"]
                   /\ UNCHANGED toff
              ELSE IF items[slot] = None
              THEN /\ tpc' = [tpc EXCEPT ![t] = "store"]
                   /\ UNCHANGED toff
              ELSE /\ toff' = [toff EXCEPT ![t] = @ + 1]
                   /\ UNCHANGED tpc
    /\ UNCHANGED <<remote, count, limit, items, tindex, tpage, tret, endpoint_calls>>
    /\ UNCHANGED <<managedVars, seqVars, wrapVars, syncVars, mirror>>

\* _fetch_page, line 550 : self._items[index + offset_index] = item
Store(t) ==
    /\ tpc[t] = "store"
    /\ LET slot == PyIndex(tindex[t] + toff[t], Len(items)) IN
         IF slot = 0
         THEN /\ tpc' = [tpc EXCEPT ![t] = "return"]
              /\ UNCHANGED <<items, toff>>
         ELSE /\ items' = [items EXCEPT ![slot] = tpage[t][toff[t] + 1]]
              /\ toff' = [toff EXCEPT ![t] = @ + 1]
              /\ tpc' = [tpc EXCEPT ![t] = "loop"]
    /\ UNCHANGED <<remote, count, limit, tindex, tpage, tret, endpoint_calls>>
    /\ UNCHANGED <<managedVars, seqVars, wrapVars, syncVars, mirror>>

\* __getitem__, line 557 : return self._items[index]; the locals die
Return(t) ==
    /\ tpc[t] = "return"
    /\ tret' = [tret EXCEPT ![t] = items[PyIndex(tindex[t], Len(items))]]
    /\ tpc' = [tpc EXCEPT ![t] = "idle"]
    /\ tindex' = [tindex EXCEPT ![t] = 0]
    /\ tpage' = [tpage EXCEPT ![t] = <<>>]
    /\ toff' = [toff EXCEPT ![t] = 0]
    /\ UNCHANGED <<remote, count, limit, items, endpoint_calls>>
    /\ UNCHANGED <<managedVars, seqVars, wrapVars, syncVars, mirror>>

\* indices the callers of __getitem__ pass
Indices == 0..MaxCount

NextPaged ==
    \E t \in Threads :
        \/ \E index \in Indices : GetItem(t, index)
        \/ EndpointCall(t)
        \/ LoopTest(t)
        \/ Store(t)
        \/ Return(t)

SpecPaged == InitPaged /\ [][NextPaged]_vars

\* ------------------------------------------- DynamicPaginatedResponse, used
\* from one thread: every operation runs to its end before the next begins
\* the failure the endpoint raises when the request fails
EndpointFailure == [kind |-> "HTTPError", rid |-> 0, obj |-> 0]
\* the results of __contains__
PyTrue == [kind |-> "Bool", rid |-> 1, obj |-> 0]
PyFalse == [kind |-> "Bool", rid |-> 0, obj |-> 0]

\* RemoteModel.__eq__ : same class and same remote id
ModelEq(a, b) == a.kind = "Entity" /\ b.kind = "Entity" /\ a.rid = b.rid

\* the loop with the None test left out: every item of the page is stored
RECURSIVE FetchLoop_overwrite(_, _, _, _)
FetchLoop_overwrite(its, index, page, k) ==
    IF k >= Len(page) THEN its
    ELSE LET slot == PyIndex(index + k, Len(its)) IN
           IF slot = 0 THEN its
           ELSE FetchLoop_overwrite([its EXCEPT ![slot] = page[k + 1]],
                                    index, page, k + 1)

\* the loop enumerating the page from 1: the first item lands one slot late
RECURSIVE FetchLoop_from_one(_, _, _, _)
FetchLoop_from_one(its, index, page, k) ==
    IF k >= Len(page) THEN its
    ELSE LET slot == PyIndex(index + k + 1, Len(its)) IN
           IF slot = 0 THEN its
           ELSE FetchLoop_from_one(IF its[slot] = None
                                   THEN [its EXCEPT ![slot] = page[k + 1]]
                                   ELSE its,
                                   index, page, k + 1)

\* the loop ending at the first slot that is already resolved
RECURSIVE FetchLoop_stops_at_resolved(_, _, _, _)
FetchLoop_stops_at_resolved(its, index, page, k) ==
    IF k >= Len(page) THEN its
    ELSE LET slot == PyIndex(index + k, Len(its)) IN
           IF slot = 0 \/ its[slot] # None THEN its
           ELSE FetchLoop_stops_at_resolved([its EXCEPT ![slot] = page[k + 1]],
                                            index, page, k + 1)

\* _fetch_page, lines 542-552 : for offset_index, item in enumerate(page):
\* a slot that raises IndexError ends the loop, a slot that is None is stored
\* to, a resolved slot is passed over; k is offset_index
RECURSIVE FetchLoop(_, _, _, _)
FetchLoop(its, index, page, k) ==
    IF k >= Len(page) THEN its
    ELSE LET slot == PyIndex(index + k, Len(its)) IN
           IF slot = 0 THEN its
           ELSE FetchLoop(IF its[slot] = None
                          THEN [its EXCEPT ![slot] = page[k + 1]]
                          ELSE its,
                          index, page, k + 1)

\* _fetch_page(index) as endpoint call number n, the call succeeding
FetchPage(its, index, n) ==
    FetchLoop(its, index, Serialized(EndpointResults(remote, index, limit), n), 0)

\* the endpoint may fail only among its first FailUntil calls
FailUntil == 4

\* __getitem__ that fetches the page whether or not the slot is resolved
SeqGet_always_fetch(index, fail) ==
    LET slot == PyIndex(index, Len(items)) IN
    /\ op' = [name |-> "get", index |-> index]
    /\ yielded' = <<>>
    /\ IF slot = 0
       THEN /\ ret' = IndexError
            /\ UNCHANGED <<items, endpoint_calls>>
       ELSE /\ endpoint_calls' = endpoint_calls + 1
            /\ items' = FetchPage(items, index, endpoint_calls + 1)
            /\ ret' = items'[slot]
    /\ UNCHANGED <<remote, count, limit, tpc, tindex, tpage, toff, tret>>
    /\ UNCHANGED <<managedVars, wrapVars, syncVars, mirror>>

\* __getitem__ that catches the failure of the endpoint call and returns the
\* slot as it is
SeqGet_swallows_failure(index, fail) ==
    LET slot == PyIndex(index, Len(items)) IN
    /\ fail => endpoint_calls < FailUntil
    /\ op' = [name |-> "get", index |-> index]
    /\ yielded' = <<>>
    /\ IF slot = 0
       THEN /\ ret' = IndexError
            /\ UNCHANGED <<items, endpoint_calls>>
       ELSE IF items[slot] # None
       THEN /\ ret' = items[slot]
            /\ UNCHANGED <<items, endpoint_calls>>
       ELSE /\ endpoint_calls' = endpoint_calls + 1
            /\ IF fail
               THEN /\ ret' = items[slot]
                    /\ UNCHANGED items
               ELSE /\ items' = FetchPage(items, index, endpoint_calls + 1)
                    /\ ret' = items'[slot]
    /\ UNCHANGED <<remote, count, limit, tpc, tindex, tpage, toff, tret>>
    /\ UNCHANGED <<managedVars, wrapVars, syncVars, mirror>>

\* __getitem__, lines 554-557, run to its end; fail: the endpoint call, if one
\* is made, raises
SeqGet(index, fail) ==
    LET slot == PyIndex(index, Len(items)) IN
    /\ fail => endpoint_calls < FailUntil
    /\ op' = [name |-> "get", index |-> index]
    /\ yielded' = <<>>
    /\ IF slot = 0
       THEN /\ ret' = IndexError
            /\ UNCHANGED <<items, endpoint_calls>>
       ELSE IF items[slot] # None
       THEN /\ ret' = items[slot]
            /\ UNCHANGED <<items, endpoint_calls>>
       ELSE /\ endpoint_calls' = endpoint_calls + 1
            /\ IF fail
               THEN /\ ret' = EndpointFailure
                    /\ UNCHANGED items
               ELSE /\ items' = FetchPage(items, index, endpoint_calls + 1)
                    /\ ret' = items'[slot]
    /\ UNCHANGED <<remote, count, limit, tpc, tindex, tpage, toff, tret>>
    /\ UNCHANGED <<managedVars, wrapVars, syncVars, mirror>>

\* the iterator that fetches a page at every index
RECURSIVE Walk_always_fetch(_, _, _, _, _, _)
Walk_always_fetch(its, calls, k, out, failCall, target) ==
    IF k > Len(its)
    THEN [items |-> its, calls |-> calls, out |-> out,
          raised |-> FALSE, found |-> FALSE]
    ELSE LET its2 == FetchPage(its, k - 1, calls + 1)
             y == its2[k]
         IN IF target # None /\ ModelEq(y, target)
            THEN [items |-> its2, calls |-> calls + 1, out |-> Append(out, y),
                  raised |-> FALSE, found |-> TRUE]
            ELSE Walk_always_fetch(its2, calls + 1, k + 1, Append(out, y),
                                   failCall, target)

\* the iterator consumed to its end whether or not an item equals target
RECURSIVE Walk_no_early_stop(_, _, _, _, _, _)
Walk_no_early_stop(its, calls, k, out, failCall, target) ==
    IF k > Len(its)
    THEN [items |-> its, calls |-> calls, out |-> out, raised |-> FALSE,
          found |-> target # None
                    /\ \E j \in 1..Len(out) : ModelEq(out[j], target)]
    ELSE LET needs == its[k] = None
             fails == needs /\ calls + 1 = failCall
             calls2 == IF needs THEN calls + 1 ELSE calls
             its2 == IF needs /\ ~fails
                     THEN FetchPage(its, k - 1, calls + 1) ELSE its
         IN IF fails
            THEN [items |-> its, calls |-> calls2, out |-> out,
                  raised |-> TRUE, found |-> FALSE]
            ELSE Walk_no_early_stop(its2, calls2, k + 1, Append(out, its2[k]),
                                    failCall, target)

\* __iter__, lines 559-565, consumed from position k (1-based) on:
\* for index, item in enumerate(self._items): a None slot has its page fetched
\* and is read again, then the item is yielded.  calls: endpoint calls made so
\* far; out: items yielded so far; failCall: the number of the endpoint call
\* that raises (0: none); target: the entity the consumer compares every
\* yielded item with, stopping at the first equal one (None: a plain loop)
RECURSIVE Walk(_, _, _, _, _, _)
Walk(its, calls, k, out, failCall, target) ==
    IF k > Len(its)
    THEN [items |-> its, calls |-> calls, out |-> out,
          raised |-> FALSE, found |-> FALSE]
    ELSE LET needs == its[k] = None
             fails == needs /\ calls + 1 = failCall
             calls2 == IF needs THEN calls + 1 ELSE calls
             its2 == IF needs /\ ~fails
                     THEN FetchPage(its, k - 1, calls + 1) ELSE its
             y == its2[k]
         IN IF fails
            THEN [items |-> its, calls |-> calls2, out |-> out,
                  raised |-> TRUE, found |-> FALSE]
            ELSE IF target # None /\ ModelEq(y, target)
            THEN [items |-> its2, calls |-> calls2, out |-> Append(out, y),
                  raised |-> FALSE, found |-> TRUE]
            ELSE Walk(its2, calls2, k + 1, Append(out, y), failCall, target)

\* the numbers of the endpoint call that may be made to raise in one operation
FailCalls == {0} \cup ((endpoint_calls + 1)..FailUntil)

\* for item in response: ... , the loop run to its end
SeqIterate(failCall) ==
    LET r == Walk(items, endpoint_calls, 1, <<>>, failCall, None) IN
    /\ op' = [name |-> "iterate", index |-> 0]
    /\ items' = r.items
    /\ endpoint_calls' = r.calls
    /\ yielded' = r.out
    /\ ret' = IF r.raised THEN EndpointFailure ELSE None
    /\ UNCHANGED <<remote, count, limit, tpc, tindex, tpage, toff, tret>>
    /\ UNCHANGED <<managedVars, wrapVars, syncVars, mirror>>

\* __contains__, lines 567-568 : item in self.__iter__(), for an entity made
\* elsewhere of the record with remote id r
SeqContains(r, failCall) ==
    LET w == Walk(items, endpoint_calls, 1, <<>>, failCall, Entity(r, 0)) IN
    /\ op' = [name |-> "contains", index |-> r]
    /\ items' = w.items
    /\ endpoint_calls' = w.calls
    /\ yielded' = w.out
    /\ ret' = IF w.raised THEN EndpointFailure
              ELSE IF w.found THEN PyTrue ELSE PyFalse
    /\ UNCHANGED <<remote, count, limit, tpc, tindex, tpage, toff, tret>>
    /\ UNCHANGED <<managedVars, wrapVars, syncVars, mirror>>

\* indices the single caller passes: every index of the list from both ends
\* and one beyond either end
SeqIndices == (0 - count - 1)..count

NextSeq ==
    \/ \E index \in SeqIndices, fail \in BOOLEAN : SeqGet(index, fail)
    \/ \E failCall \in FailCalls : SeqIterate(failCall)
    \/ \E r \in 0..count, failCall \in FailCalls : SeqContains(r, failCall)

SpecSeq == InitPaged /\ [][NextSeq]_vars

\* __len__, lines 570-571, reading a size from the remote collection
SeqLen_from_remote ==
    /\ op' = [name |-> "len", index |-> 0]
    /\ ret' = [kind |-> "Int", rid |-> remote, obj |-> 0]
    /\ yielded' = <<>>
    /\ endpoint_calls' = endpoint_calls + 1
    /\ UNCHANGED <<remote, count, limit, items, tpc, tindex, tpage, toff, tret>>
    /\ UNCHANGED <<managedVars, wrapVars, syncVars, mirror>>

\* __len__, lines 570-571 : return self._count
SeqLen ==
    /\ op' = [name |-> "len", index |-> 0]
    /\ ret' = [kind |-> "Int", rid |-> count, obj |-> 0]
    /\ yielded' = <<>>
    /\ UNCHANGED <<remote, count, limit, items, tpc, tindex, tpage, toff, tret,
                   endpoint_calls>>
    /\ UNCHANGED <<managedVars, wrapVars, syncVars, mirror>>

\* the remote collection (external) gains or loses records
Mutate(n) ==
    /\ remote' = n
    /\ UNCHANGED <<count, limit, items, tpc, tindex, tpage, toff, tret,
                   endpoint_calls>>
    /\ UNCHANGED <<managedVars, seqVars, wrapVars, syncVars, mirror>>

\* construction at any offset up to one beyond the end of the collection
InitRemote ==
    /\ InitManaged
    /\ \E n \in 0..MaxCount, lim \in 1..MaxLimit : \E offset \in 0..(n + 1) :
           Construct(n, offset, lim)
    /\ ThreadsIdle
    /\ NoCaller

\* operations that may call the endpoint are started only while fewer than
\* MaxEndpointCalls calls have been made
MaxEndpointCalls == 4

NextRemote ==
    \/ \E n \in 0..MaxCount : Mutate(n)
    \/ \E index \in 0..count :
           endpoint_calls < MaxEndpointCalls /\ SeqGet(index, FALSE)
    \/ endpoint_calls < MaxEndpointCalls /\ SeqIterate(0)
    \/ SeqLen

\* one thread using a response whose remote collection changes size
SpecRemote == InitRemote /\ [][NextRemote]_vars

\* the response of the walk-through: 25 records, pages of 10, first page at 0
InitScenario ==
    /\ InitManaged
    /\ Construct(25, 0, 10)
    /\ ThreadsIdle
    /\ NoCaller

\* indices the caller of the walk-through passes: the first slot, the first
\* slot of the second page, a slot inside the third page, and one beyond the end
ScenarioIndices == {0, limit, count - 2, count}

NextScenario ==
    \/ \E index \in ScenarioIndices, fail \in BOOLEAN : SeqGet(index, fail)
    \/ \E failCall \in FailCalls : SeqIterate(failCall)
    \/ \E r \in {0, count - 1, count}, failCall \in FailCalls :
           SeqContains(r, failCall)

SpecScenario == InitScenario /\ [][NextScenario]_vars

\* ------------------------------------------------- claims: managed release
\* calls that hold a handle for key K (they have returned from get_condition)
Holders(K) == {c \in Calls : arg[c] = K /\ event[c] # NoEvent}
\* handles created for key K so far
HandlesOf(K) == {e \in 1..Len(events) : events[e].key = K}
\* the call that get_condition designated producer of handle e
ProducersOf(e) == {p \in Calls : event[p] = e /\ ~in_progress[p]}

\* C1: callers of get_release_managed(id) for an id absent from the cache, all
\* submitted before the first of them completes, cause exactly one execution
\* of the synchronous fetch for id.
C1_ExactlyOneFetch ==
    \A id \in Ids :
        ~late[id] =>
            /\ fetches[id] <= 1
            /\ (\E c \in Calls : arg[c] = id /\ Completed(c)) => fetches[id] = 1

\* C2: for each release id at most one worker is inside the synchronous fetch.
C2_OneFetchInFlight ==
    \A id \in Ids :
        Cardinality({c \in Calls : arg[c] = id /\ pc[c] = "fetching"}) <= 1

\* a fetch for an id is in flight while another caller of the same id waits
C2_Witness ==
    \E c, d \in Calls :
        /\ c # d /\ arg[c] = arg[d]
        /\ pc[c] = "fetching" /\ pc[d] = "wait"

\* C3: concurrent callers for the same initially absent id (all submitted
\* before the first completes) resolve to the identical entity object.
C3_SameEntity ==
    \A c, d \in Calls :
        (/\ arg[c] = arg[d] /\ arg[c] \in Ids /\ ~late[arg[c]]
         /\ pc[c] = "done" /\ pc[d] = "done")
        => result[c] = result[d]

\* C4 as stated: among the callers of get_condition(K) so far, while no
\* set_value has completed for K (no handle of K has its flag set), exactly
\* one was told in_progress = False and all hold the same handle.
C4_OneProducerUntilCompleted ==
    \A K \in Ids :
        (Holders(K) # {} /\ \A e \in HandlesOf(K) : ~events[e].flag)
        => /\ Cardinality({c \in Holders(K) : ~in_progress[c]}) = 1
           /\ \A c, d \in Holders(K) : event[c] = event[d]

\* C4 amended: the same, while no set_value has yet removed K from the
\* register (every handle created for K is still the registered one).
C4_OneProducerUntilRemoved ==
    \A K \in Ids :
        (Holders(K) # {} /\ \A e \in HandlesOf(K) : task_map[K] = e)
        => /\ Cardinality({c \in Holders(K) : ~in_progress[c]}) = 1
           /\ \A c, d \in Holders(K) : event[c] = event[d]

\* two callers hold the still registered handle, one of them told True
C4_Witness ==
    \E K \in Ids :
        /\ \A e \in HandlesOf(K) : task_map[K] = e
        /\ \E c, d \in Holders(K) : ~in_progress[c] /\ in_progress[d]

\* C5: a requester told in_progress = True that has returned from wait() finds
\* the flag set and the value stored, the value being the one its producer
\* passed to set_value, and that is the value it returns.
C5_PublishBeforeObserve ==
    \A w \in Calls :
        (in_progress[w] /\ pc[w] \in {"read", "done"})
        => /\ events[event[w]].flag
           /\ events[event[w]].value # None
           /\ \A p \in ProducersOf(event[w]) :
                  events[event[w]].value = release[p]
           /\ pc[w] = "done" => result[w] = events[event[w]].value

\* a waiter has returned the published release
C5_Witness ==
    \E w \in Calls :
        /\ in_progress[w] /\ pc[w] = "done"
        /\ result[w].kind = "CubeRelease"
        /\ \E p \in ProducersOf(event[w]) : result[p] = result[w]

\* every round started for K has been completed by its producer's set_value
RoundsCompleted(K) ==
    HandlesOf(K) # {} /\ \A e \in HandlesOf(K) : events[e].flag

C7_WaitersReceiveFailure ==
    /\ (~ENABLED Next) => \A w \in Calls : pc[w] # "wait"
    /\ \A w, p \in Calls :
           (/\ in_progress[w] /\ pc[w] = "done"
            /\ p \in ProducersOf(event[w]) /\ pc[p] = "failed")
           => result[w] = result[p]

\* C8: once the producer's call has ended in failure, its handle is no longer
\* the register's entry for the id.
C8_KeyRemovedOnFailure ==
    \A p \in Calls :
        (pc[p] = "failed" /\ event[p] # NoEvent /\ ~in_progress[p])
        => task_map[arg[p]] # event[p]

\* C9: no caller is the designated producer of an id (fetch not yet stored)
\* while the cache already holds that id.
C9_NoProducerAfterInsert ==
    \A c \in Calls :
        (/\ event[c] # NoEvent /\ ~in_progress[c]
         /\ pc[c] \in {"fetch", "fetching", "insert"})
        => release_map[arg[c]] = None


\* ------------------------------------------- claims: DynamicPaginatedResponse
\* C10: with threads running page fetches over overlapping ranges, a slot that
\* holds an entity keeps that entity object in every step.
C10_ResolvedSlotKept ==
    [][\A i \in 1..Len(items) :
         items[i] # None => items'[i] = items[i]]_vars

\* indices (0-based) of the slots of its that hold an entity
Resolved(its) == {k - 1 : k \in {j \in 1..Len(its) : its[j] # None}}

\* C11: used from one thread, a slot that holds an entity keeps that entity
\* object through every get, iterate and contains, and a get(i) that returns an
\* entity returns the object its slot holds: once get(i) has returned e, every
\* later get(i) returns e.
C11_GetStable ==
    [][/\ \A k \in 1..Len(items) : items[k] # None => items'[k] = items[k]
       /\ (op'.name = "get" /\ ret'.kind = "Entity")
          => ret' = items'[PyIndex(op'.index, Len(items'))]]_vars
\* get(1) returns the entity of the first page after a later page fetch at
\* index 0 has passed over slot 1
C11_Witness ==
    /\ op = [name |-> "get", index |-> 1]
    /\ limit = 2
    /\ ret.kind = "Entity"
    /\ ret = items[2]
    /\ items[1] # None
    /\ items[1].obj > ret.obj

\* C12: get with a negative index raises the out-of-range error, makes no
\* endpoint call and changes no slot.
C12_NegativeIndexRaises ==
    [][(op'.name = "get" /\ op'.index < 0)
       => (/\ ret' = IndexError
           /\ endpoint_calls' = endpoint_calls
           /\ items' = items)]_vars

\* C13: get with an index of count or more raises the out-of-range error,
\* which is not the transport failure, makes no endpoint call and changes no
\* slot.
C13_BeyondCountRaises ==
    [][(op'.name = "get" /\ op'.index >= count)
       => (/\ ret' = IndexError
           /\ IndexError # EndpointFailure
           /\ endpoint_calls' = endpoint_calls
           /\ items' = items)]_vars
\* get(count) has raised while a slot was still unresolved
C13_Witness ==
    /\ op.name = "get"
    /\ op.index >= count
    /\ ret = IndexError
    /\ \E k \in 1..Len(items) : items[k] = None

\* C14: get(i) on a slot that already holds an entity returns that entity and
\* makes no endpoint call.
C14_ResolvedNoCall ==
    [][LET slot == PyIndex(op'.index, Len(items)) IN
       (op'.name = "get" /\ slot # 0 /\ items[slot] # None)
       => (/\ ret' = items[slot]
           /\ endpoint_calls' = endpoint_calls
           /\ items' = items)]_vars
\* get has returned an entity that an earlier page fetch (not the
\* construction, not this get) stored
C14_Witness ==
    /\ op.name = "get"
    /\ ret.kind = "Entity"
    /\ ret.obj > 1
    /\ ret.obj < endpoint_calls

\* C15 (as stated): with count 25, limit 10 and exactly the slots 0-9 filled,
\* a successful get(23) fills the slots 20-24 and leaves 10-19 unresolved.
C15_FillsAlignedPage ==
    [][(/\ count = 25 /\ limit = 10
        /\ Resolved(items) = 0..9
        /\ op'.name = "get" /\ op'.index = 23
        /\ ret' # EndpointFailure)
       => Resolved(items') = (0..9) \cup (20..24)]_vars
\* C15 (amended): with count 25, limit 10 and exactly the slots 0-9 filled, a
\* successful get(23) makes one endpoint call, fills the slots 23 and 24 with
\* the records 23 and 24 of that call, and leaves 10-22 unresolved.
C15_FillsFromIndex ==
    [][(/\ count = 25 /\ limit = 10
        /\ Resolved(items) = 0..9
        /\ op'.name = "get" /\ op'.index = 23
        /\ ret' # EndpointFailure)
       => (/\ Resolved(items') = (0..9) \cup {23, 24}
           /\ endpoint_calls' = endpoint_calls + 1
           /\ \A i \in {23, 24} :
                  items'[i + 1] = Entity(i, endpoint_calls + 1)
           /\ ret' = items'[24])]_vars
\* get(23) has returned with the slots 0-9, 23 and 24 filled, 23 and 24 by
\* one endpoint call
C15_Witness ==
    /\ count = 25 /\ limit = 10
    /\ op = [name |-> "get", index |-> 23]
    /\ Resolved(items) = (0..9) \cup {23, 24}
    /\ ret = items[24]
    /\ items[24].obj = items[25].obj
    /\ items[24].obj > 1

\* C16 (as stated): with count 25 and limit 10, after get(0) and get(23) a
\* full iteration makes exactly one more endpoint call and yields the 25
\* entities in index order.
C16_OneMoreCall ==
    [][(/\ count = 25 /\ limit = 10
        /\ Resolved(items) = (0..9) \cup {23, 24}
        /\ op'.name = "iterate"
        /\ ret' # EndpointFailure)
       => (/\ endpoint_calls' = endpoint_calls + 1
           /\ Len(yielded') = 25
           /\ \A k \in 1..25 : yielded'[k].kind = "Entity"
                               /\ yielded'[k].rid = k - 1)]_vars
\* C16 (amended): with count 25 and limit 10, after get(0) and get(23) a full
\* iteration makes exactly two more endpoint calls, the first filling the slots
\* 10-19 and the second the slots 20-22, and yields the 25 entities held by the
\* slots in index order.
C16_TwoMoreCalls ==
    [][(/\ count = 25 /\ limit = 10
        /\ Resolved(items) = (0..9) \cup {23, 24}
        /\ op'.name = "iterate"
        /\ ret' # EndpointFailure)
       => (/\ endpoint_calls' = endpoint_calls + 2
           /\ \A i \in 10..19 : items'[i + 1] = Entity(i, endpoint_calls + 1)
           /\ \A i \in 20..22 : items'[i + 1] = Entity(i, endpoint_calls + 2)
           /\ \A i \in {23, 24} : items'[i + 1] = items[i + 1]
           /\ Len(yielded') = 25
           /\ \A k \in 1..25 : /\ yielded'[k] = items'[k]
                               /\ yielded'[k].kind = "Entity"
                               /\ yielded'[k].rid = k - 1)]_vars
\* an iteration has yielded all 25 entities, the slots 10-19 filled by the
\* last endpoint call but one, 20-22 by the last, 23-24 by an earlier one
C16_Witness ==
    /\ count = 25 /\ limit = 10
    /\ op.name = "iterate"
    /\ Len(yielded) = 25
    /\ \A i \in 10..19 : items[i + 1].obj = endpoint_calls - 1
    /\ \A i \in 20..22 : items[i + 1].obj = endpoint_calls
    /\ items[24].obj < endpoint_calls - 1
    /\ items[24].obj = items[25].obj


\* ------------------------------------------------- claims: AsyncFacade
\* C19: get_release_managed_noblock(id) returns what the cache holds for id,
\* a release or not-found, and changes neither the cache nor the register, and
\* starts no fetch and no pool work.
C19_NoBlockReadsCache ==
    [][(<<op, ret>>' # <<op, ret>>)
       => (/\ op'.name = "noblock"
           /\ ret' = release_map[op'.index]
           /\ ret' = None \/ ret'.kind = "CubeRelease"
           /\ release_map' = release_map
           /\ task_map' = task_map
           /\ events' = events
           /\ fetches' = fetches
           /\ queue' = queue
           /\ pc' = pc)]_vars
\* the lookup has returned the cached release of one id while the fetch of
\* another id is in flight and registered
C19_Witness ==
    /\ op.name = "noblock"
    /\ ret.kind = "CubeRelease"
    /\ ret = release_map[op.index]
    /\ \E c \in Calls : /\ pc[c] = "fetching"
                        /\ arg[c] # op.index
                        /\ task_map[arg[c]] = event[c]

\* C20: a second set_value on a handle that has been published fails loudly:
\* the value of a published handle stays the one published first, the second
\* attempt removes no register entry, and it ends by raising.
C20_SecondPublishFails ==
    [][/\ \A e \in 1..Len(events) :
              events[e].flag => events'[e].value = events[e].value
       /\ op.name = "del_key" => task_map' = task_map
       /\ (op'.name = "set_value" /\ op.name # "set_value")
          => ret'.kind = "KeyError"]_vars

\* the invocations on the synchronous client made for wrapper call w
InvocationsOf(w) == {k \in 1..Len(synclog) : synclog[k].by = w}

\* C17: a call of a generated wrapper with arguments a makes exactly one
\* invocation, on a pool worker, of the operation of the wrapped client that
\* has the wrapper's name, with a; the promise resolves to the value that
\* invocation returned or is rejected with the failure it raised; before the
\* invocation the promise is pending.
C17_WrapperDispatch ==
    \A w \in WCalls :
        wcalls[w].name \in DOMAIN Attributes =>
            /\ Cardinality(InvocationsOf(w)) <= 1
            /\ wcalls[w].pc # "done"
               => (InvocationsOf(w) = {} /\ wcalls[w].res = Pending)
            /\ wcalls[w].pc = "done"
               => \E k \in InvocationsOf(w) :
                      /\ synclog[k].name = wcalls[w].name
                      /\ synclog[k].arg = wcalls[w].arg
                      /\ synclog[k].thread = "pool"
                      /\ wcalls[w].res = synclog[k].outcome
\* two calls of the login wrapper with different arguments have completed,
\* one resolved and one rejected
C17_Witness ==
    \E v, w \in WCalls :
        /\ wcalls[v].name = "login" /\ wcalls[w].name = "login"
        /\ wcalls[v].arg # wcalls[w].arg
        /\ wcalls[v].res.kind = "Returned"
        /\ wcalls[w].res.kind = "Raised"

\* C18: every operation of the contract that is not excluded has a generated
\* wrapper, which dispatches to the operation of the same name that the
\* wrapped synchronous client defines; an excluded operation has no generated
\* wrapper and is invoked on the calling thread.
C18_WrapperForEveryOperation ==
    /\ \A name \in Contract \ excluded :
           /\ name \in DOMAIN Attributes
           /\ Attributes[name] = name
           /\ name \in SyncImplemented
    /\ \A name \in excluded : name \notin DOMAIN Attributes
    /\ \A k \in 1..Len(synclog) :
           synclog[k].name \in excluded => synclog[k].thread = "caller"


\* ------------------------------------ claims: locks, publish order, cache
\* a waiter that event.wait() has released
Released(w) == in_progress[w] /\ pc[w] \in {"read", "done"}
\* a producer whose set_value has removed the key from the register
Removed(p) ==
    event[p] # NoEvent /\ ~in_progress[p] /\ pc[p] \in {"set", "done"}

\* C21: while a producer is inside the synchronous fetch for id A, no step of
\* a call for another id B is blocked: its cache check, its get_condition, the
\* start of its fetch, its cache insert and its del_key can all be taken.
C21_FetchBlocksNoOtherId ==
    \A a, b \in Calls :
        (pc[a] = "fetching" /\ arg[b] # arg[a]) =>
            /\ pc[b] = "check" => ENABLED CheckCache(b)
            /\ pc[b] = "acquire" => ENABLED get_condition(b)
            /\ pc[b] = "fetch" => ENABLED FetchBegin(b)
            /\ pc[b] = "insert" => ENABLED CacheInsert(b)
            /\ pc[b] = "delkey" => ENABLED del_key(b)
\* the fetches of two ids are in flight at the same time, the second having
\* gone through get_condition while the first was already fetching
C21_Witness ==
    \E a, b \in Calls :
        /\ pc[a] = "fetching" /\ pc[b] = "fetching"
        /\ arg[a] # arg[b]
        /\ event[a] < event[b]

\* C22: in every state in which a waiter of a handle has been released, the
\* handle's value is set and the handle is not the register's entry for its
\* key.
C22_ReleasedAfterStoreAndRemove ==
    \A w \in Calls :
        Released(w) =>
            /\ events[event[w]].value # None
            /\ task_map[events[event[w]].key] # event[w]
\* a waiter has been released and has returned the published release
C22_Witness ==
    \E w \in Calls :
        /\ Released(w)
        /\ pc[w] = "done"
        /\ result[w] = events[event[w]].value
        /\ result[w].kind = "CubeRelease"

\* C23: in every state where a producer's publish has removed the register
\* entry of its id, and in every state where a waiter has been released, the
\* cache holds a release for the id.
C23_InsertBeforePublish ==
    \A c \in Calls :
        (Removed(c) \/ Released(c)) => release_map[arg[c]] # None
\* a producer has published and its waiter has been released, with the id in
\* the cache
C23_Witness ==
    \E p, w \in Calls :
        /\ Removed(p) /\ Released(w)
        /\ event[w] = event[p]
        /\ release_map[arg[p]] = release[p]

\* C24: once an id maps to a release in the cache, it maps to that same
\* release object in every later state.
C24_CacheEntryKept ==
    [][\A id \in Ids :
         release_map[id] # None => release_map'[id] = release_map[id]]_vars

\* C25: a call whose cache check finds the id in the cache completes with the
\* cached release in that step, starts no fetch and neither creates nor reads
\* a register entry.
C25_CachedSkipsRegister ==
    [][\A c \in Calls :
         (pc[c] = "check" /\ pc'[c] # "check" /\ release_map[arg[c]] # None)
         => (/\ pc'[c] = "done"
             /\ result'[c] = release_map[arg[c]]
             /\ fetches' = fetches
             /\ task_map' = task_map
             /\ events' = events
             /\ event'[c] = NoEvent)]_vars
\* a call submitted after the id was cached has completed with the cached
\* release without ever holding a handle
C25_Witness ==
    \E c \in Calls :
        /\ pc[c] = "done"
        /\ event[c] = NoEvent
        /\ late[arg[c]]
        /\ result[c] = release_map[arg[c]]
        /\ result[c].kind = "CubeRelease"


\* ---------------------------- claims: DynamicPaginatedResponse, page fills
\* C26: a get(index) that finds its slot unresolved makes exactly one endpoint
\* call and stores the r-th record of the page to slot index+r if that slot
\* was unresolved; every other slot, and every slot outside
\* index..index+received-1, keeps what it held, and the list keeps its
\* length.
C26_PageFillWithinRange ==
    [][LET index == op'.index
           slot == PyIndex(index, Len(items))
           page == EndpointResults(remote, index, limit)
       IN (/\ op'.name = "get"
           /\ slot # 0
           /\ items[slot] = None
           /\ ret' # EndpointFailure)
          => (/\ endpoint_calls' = endpoint_calls + 1
              /\ Len(items') = count
              /\ \A k \in 0..(count - 1) :
                     items'[k + 1] =
                         IF /\ index <= k
                            /\ k < index + Len(page)
                            /\ items[k + 1] = None
                         THEN Entity(page[k - index + 1], endpoint_calls + 1)
                         ELSE items[k + 1])]_vars

\* C27: a get(index) that returns without error returns the entity that slot
\* index holds, never the unresolved marker.
C27_ReturnsEntity ==
    [][(op'.name = "get" /\ ret'.kind \notin {"IndexError", "HTTPError"})
       => (/\ ret'.kind = "Entity"
           /\ ret' = items'[PyIndex(op'.index, Len(items'))])]_vars

\* C28: after construction, before any further endpoint call, one endpoint
\* call has been made, there are count slots, and for the offset of the
\* construction exactly the slots offset..offset+len(results)-1 hold the
\* serialized records of the response in its order, all others unresolved.
C28_ConstructionFillsFirstPage ==
    endpoint_calls = 1 =>
        /\ Len(items) = count
        /\ \E offset \in 0..(count + 1) :
               LET results == EndpointResults(count, offset, limit) IN
               \A k \in 0..(count - 1) :
                   items[k + 1] =
                       IF offset <= k /\ k < offset + Len(results)
                       THEN Entity(results[k - offset + 1], 1)
                       ELSE None
\* a response constructed with three records at offset 1 with limit 2: slot 0
\* unresolved, slots 1 and 2 filled in response order
C28_Witness ==
    /\ endpoint_calls = 1
    /\ count = 3 /\ limit = 2
    /\ items[1] = None
    /\ items[2] = Entity(1, 1)
    /\ items[3] = Entity(2, 1)

\* C29: the slot list has exactly count entries in every state.
C29_CountSlots == Len(items) = count
\* a page fetch has filled the last slot while the remote collection held
\* more records than count
C29_Witness ==
    /\ count >= 1
    /\ Len(items) = count
    /\ items[count] # None
    /\ items[count].obj > 1
    /\ remote > count

\* C30: count never changes, and length() returns it without an endpoint call
\* and without touching a slot, whatever size the remote collection has.
C30_LengthIsConstructionCount ==
    [][/\ count' = count
       /\ (op'.name = "len" /\ op.name # "len")
          => (/\ ret' = [kind |-> "Int", rid |-> count, obj |-> 0]
              /\ endpoint_calls' = endpoint_calls
              /\ items' = items)]_vars
\* length() has returned count after a page fetch at index 0 with limit 2
\* received a single record: the response reported a count of 1, count is 2
\* or more
C30_Witness ==
    /\ op.name = "len"
    /\ ret.rid = count
    /\ limit = 2 /\ count >= 2
    /\ items[1] # None
    /\ items[1].obj > 1
    /\ items[2] = None


\* ------------------------------------------------ page merges, two orders
\* the page the endpoint returns for offset index while the remote collection
\* holds n records, serialized as endpoint call number call
PageAt(index, n, call) == Serialized(EndpointResults(n, index, limit), call)

\* the responses of two endpoint calls, for offsets i1 and i2 with n1 and n2
\* records in the remote collection, are merged by the loop of _fetch_page
\* into the slots of the response in the order of the calls, and into the
\* slots of the mirror in the opposite order
MergePair(i1, n1, i2, n2) ==
    LET p1 == PageAt(i1, n1, endpoint_calls + 1)
        p2 == PageAt(i2, n2, endpoint_calls + 2)
    IN
    /\ endpoint_calls < MaxEndpointCalls
    /\ endpoint_calls' = endpoint_calls + 2
    /\ items' = FetchLoop(FetchLoop(items, i1, p1, 0), i2, p2, 0)
    /\ mirror' = FetchLoop(FetchLoop(mirror, i2, p2, 0), i1, p1, 0)
    /\ op' = [name |-> "merge", first |-> i1, second |-> i2]
    /\ yielded' = <<p1, p2>>
    /\ ret' = None
    /\ UNCHANGED <<remote, count, limit, tpc, tindex, tpage, toff, tret>>
    /\ UNCHANGED <<managedVars, wrapVars, syncVars>>

\* one of the two responses merged last is merged once more into both
MergeAgain(which) ==
    /\ op.name = "merge"
    /\ LET index == IF which = 1 THEN op.first ELSE op.second IN
         /\ items' = FetchLoop(items, index, yielded[which], 0)
         /\ mirror' = FetchLoop(mirror, index, yielded[which], 0)
    /\ op' = [op EXCEPT !.name = "merge_again"]
    /\ UNCHANGED <<ret, yielded>>
    /\ UNCHANGED <<remote, count, limit, tpc, tindex, tpage, toff, tret,
                   endpoint_calls>>
    /\ UNCHANGED <<managedVars, wrapVars, syncVars>>

\* two responses constructed alike, at any offset up to the end
InitMerge ==
    /\ InitManaged
    /\ \E n \in 0..MaxCount, lim \in 1..MaxLimit : \E offset \in 0..n :
           Construct(n, offset, lim)
    /\ ThreadsIdle
    /\ op = [name |-> "none", index |-> 0]
    /\ ret = None
    /\ yielded = <<>>
    /\ mirror = items

\* the mirror takes the opposite order, so the pairs with i1 <= i2 are all
NextMerge ==
    \/ \E i1 \in 0..(count - 1) : \E i2 \in i1..(count - 1) :
           \E n1 \in 0..MaxCount, n2 \in 0..MaxCount : MergePair(i1, n1, i2, n2)
    \/ \E which \in 1..2 : MergeAgain(which)

\* page responses merged into one response in one order and into its mirror
\* in the other
SpecMerge == InitMerge /\ [][NextMerge]_vars

\* ------------------------------------------- BaseNativeApiClient, cached
\* the paginated response _get_paginated_response builds from endpoint call
\* number n for the window (offset, limit)
PaginatedResponse(offset, lim, n) ==
    [kind |-> "PaginatedResponse", offset |-> offset, limit |-> lim, obj |-> n]

\* versioned_cubes that returns the stored result only if it was fetched for
\* the same offset and limit
versioned_cubes_keyed(offset, lim, cached, fail) ==
    LET hit == /\ vc_stored # None
               /\ cached
               /\ vc_stored.offset = offset
               /\ vc_stored.limit = lim
    IN
    /\ op' = [name |-> "versioned_cubes", offset |-> offset, limit |-> lim,
              cached |-> cached]
    /\ yielded' = <<>>
    /\ IF hit
       THEN /\ ~fail
            /\ ret' = vc_stored
            /\ UNCHANGED <<vc_stored, vc_calls>>
       ELSE /\ vc_calls < MaxEndpointCalls
            /\ vc_calls' = vc_calls + 1
            /\ IF fail
               THEN /\ ret' = EndpointFailure
                    /\ UNCHANGED vc_stored
               ELSE /\ vc_stored' = PaginatedResponse(offset, lim, vc_calls + 1)
                    /\ ret' = vc_stored'
    /\ UNCHANGED <<loaded, detail, release_fetches>>
    /\ UNCHANGED <<managedVars, pagedVars, wrapVars, mirror>>

\* BaseNativeApiClient.versioned_cubes, lines 172-188, run to its end; fail:
\* the endpoint call, if one is made, raises
versioned_cubes(offset, lim, cached, fail) ==
    /\ op' = [name |-> "versioned_cubes", offset |-> offset, limit |-> lim,
              cached |-> cached]
    /\ yielded' = <<>>
    /\ IF vc_stored # None /\ cached
       THEN /\ ~fail
            /\ ret' = vc_stored
            /\ UNCHANGED <<vc_stored, vc_calls>>
       ELSE /\ vc_calls < MaxEndpointCalls
            /\ vc_calls' = vc_calls + 1
            /\ IF fail
               THEN /\ ret' = EndpointFailure
                    /\ UNCHANGED vc_stored
               ELSE /\ vc_stored' = PaginatedResponse(offset, lim, vc_calls + 1)
                    /\ ret' = vc_stored'
    /\ UNCHANGED <<loaded, detail, release_fetches>>
    /\ UNCHANGED <<managedVars, pagedVars, wrapVars, mirror>>

NextVersioned ==
    \E offset \in 0..MaxLimit, lim \in 1..MaxLimit :
        \E cached \in BOOLEAN, fail \in BOOLEAN :
            versioned_cubes(offset, lim, cached, fail)

\* one caller of versioned_cubes on a synchronous client
SpecVersioned == Init /\ [][NextVersioned]_vars

\* --------------------------------------------------------- CubeRelease
\* the keys a release record of the server may carry beside id and name
Keys == {"created_at", "intended_size", "cube", "versioned_cube",
         "constrained_nodes", "infinites"}

\* the key of the record an attribute is deserialized from: group_map comes
\* out of remote["constrained_nodes"], lines 793-800
KeyOf(a) == IF a = "group_map" THEN "constrained_nodes" ELSE a

\* a deserialized field value; n numbers the deserialize call that made it
Attr(a, n) == [kind |-> a, rid |-> 0, obj |-> n]

\* CubeRelease.deserialize, lines 774-813 : a field is None when the record
\* lacks its key
deserialize(keys, n) ==
    [a \in LazyAttributes |-> IF KeyOf(a) \in keys THEN Attr(a, n) ELSE None]

\* CubeRelease._fetch, lines 765-772 : fetch the release and copy
\* _created_at, _intended_size, _cube, _constrained_nodes, _group_map and
\* _versioned_cube from it; _infinites is not assigned
Copied == LazyAttributes \ {"infinites"}

fetch(n) ==
    LET fetched == deserialize(detail, n) IN
    [a \in LazyAttributes |-> IF a \in Copied THEN fetched[a] ELSE loaded[a]]

\* a CubeRelease is deserialized from a record carrying the keys `keys`, as
\* list endpoints return it; the server's record of the release itself
\* carries the keys `full`
Deserialize(keys, full) ==
    /\ op.name = "none"
    /\ op' = [name |-> "deserialize", index |-> 0]
    /\ ret' = None
    /\ yielded' = <<>>
    /\ loaded' = deserialize(keys, 0)
    /\ detail' = full
    /\ UNCHANGED <<vc_stored, vc_calls, release_fetches>>
    /\ UNCHANGED <<managedVars, pagedVars, wrapVars, mirror>>

\* the lazy properties, lines 815-859 : if self._<a> is None: self._fetch();
\* return self._<a>
Access(a) ==
    /\ op.name # "none"
    /\ op' = [name |-> a, index |-> 0]
    /\ yielded' = <<>>
    /\ IF loaded[a] = None
       THEN /\ release_fetches < MaxEndpointCalls
            /\ release_fetches' = release_fetches + 1
            /\ loaded' = fetch(release_fetches + 1)
       ELSE UNCHANGED <<loaded, release_fetches>>
    /\ ret' = loaded'[a]
    /\ UNCHANGED <<vc_stored, vc_calls, detail>>
    /\ UNCHANGED <<managedVars, pagedVars, wrapVars, mirror>>

NextRelease ==
    \/ \E keys \in SUBSET Keys, full \in SUBSET Keys : Deserialize(keys, full)
    \/ \E a \in LazyAttributes : Access(a)

\* one caller reading the attributes of one CubeRelease
SpecRelease == Init /\ [][NextRelease]_vars

\* -------------------------- claims: DynamicPaginatedResponse, iteration
\* the numbers of the endpoint calls that stored to a slot of its
CallsStored(its) == {its[k].obj : k \in {j \in 1..Len(its) : its[j] # None}}

\* C31: an iteration that ends without a failure yields count entities, the
\* k-th being the entity slot k holds; slots resolved before keep their
\* entity, and every endpoint call the iteration makes stores to a slot (it
\* was made at a slot found unresolved).
C31_IterateYieldsSlots ==
    [][(op'.name = "iterate"
        /\ ret' # EndpointFailure)
       => (/\ Len(yielded') = count
           /\ \A k \in 1..count : /\ yielded'[k].kind = "Entity"
                                  /\ yielded'[k] = items'[k]
                                  /\ items[k] # None => items'[k] = items[k]
           /\ endpoint_calls' - endpoint_calls =
                  Cardinality({n \in CallsStored(items') :
                                   n > endpoint_calls}))]_vars

\* C32: after an iteration that ended without a failure every slot is
\* resolved, and an iteration that follows it yields the same entities in the
\* same order with no endpoint call.
C32_IterationRestartable ==
    [][/\ (op'.name = "iterate" /\ ret' # EndpointFailure)
          => \A k \in 1..count : items'[k] # None
       /\ (op.name = "iterate" /\ ret # EndpointFailure
           /\ op'.name = "iterate" /\ ret' # EndpointFailure)
          => (/\ yielded' = yielded
              /\ endpoint_calls' = endpoint_calls)]_vars

\* C34: a failing endpoint call reaches the caller of get, iterate or contains
\* as the failure it is and stores to no slot: after a failed get the slots
\* are as before, an iteration that fails at a slot leaves that slot and the
\* slots after it as they were and has yielded the slots before it; a resolved
\* slot is returned without a call, and a get of the index whose fetch failed
\* calls the endpoint again.
C34_FailureChangesNoSlot ==
    [][/\ (op'.name = "get" /\ endpoint_calls' # endpoint_calls
           /\ items' = items)
          => ret' = EndpointFailure
       /\ (op'.name = "get" /\ ret' = EndpointFailure)
          => (/\ items' = items
              /\ endpoint_calls' = endpoint_calls + 1
              /\ items[PyIndex(op'.index, count)] = None)
       /\ (op'.name \in {"iterate", "contains"} /\ ret' = EndpointFailure)
          => (/\ Len(yielded') < count
              /\ \A k \in 1..Len(yielded') : yielded'[k] = items'[k]
              /\ \A k \in 1..count :
                     items[k] # None => items'[k] = items[k]
              /\ \A k \in (Len(yielded') + 1)..count : items'[k] = items[k]
              /\ items'[Len(yielded') + 1] = None)
       /\ (op'.name = "get" /\ PyIndex(op'.index, count) # 0
           /\ items[PyIndex(op'.index, count)] # None)
          => (/\ ret' = items[PyIndex(op'.index, count)]
              /\ endpoint_calls' = endpoint_calls)
       /\ (op.name = "get" /\ ret = EndpointFailure /\ op' = op)
          => endpoint_calls' = endpoint_calls + 1]_vars

\* an iteration fetched a page, yielded its slots, then failed at a later slot;
\* the fetched page is still there
C34_Witness ==
    /\ op.name = "iterate"
    /\ ret = EndpointFailure
    /\ Len(yielded) >= 2
    /\ yielded[Len(yielded)].obj = endpoint_calls - 1
    /\ items[Len(yielded) + 1] = None

\* C35: contains(item) is true exactly when a slot holds an entity equal to
\* item; the walk goes through the slots in order, stores every page it
\* fetches, ends at the first equal entity and makes no endpoint call after it.
C35_ContainsFirstMatch ==
    [][(op'.name = "contains" /\ ret' # EndpointFailure)
       => LET target == Entity(op'.index, 0)
              m == Len(yielded')
          IN /\ ret' \in {PyTrue, PyFalse}
             /\ ret' = PyTrue
                  <=> \E k \in 1..count : ModelEq(items'[k], target)
             /\ \A k \in 1..m : yielded'[k] = items'[k]
             /\ ret' = PyTrue
                  => (/\ m >= 1
                      /\ ModelEq(yielded'[m], target)
                      /\ \A k \in 1..(m - 1) : ~ModelEq(yielded'[k], target))
             /\ ret' = PyFalse => m = count
             /\ endpoint_calls' - endpoint_calls =
                    Cardinality({n \in CallsStored(items') :
                                     n > endpoint_calls})
             /\ \A k \in 1..count :
                    items'[k] # items[k]
                    => \E j \in 1..m : /\ j <= k
                                       /\ items[j] = None
                                       /\ items'[j].obj = items'[k].obj]_vars

\* a walk that fetched a page, found the item in it and left a later slot
\* unresolved
C35_Witness ==
    /\ op.name = "contains"
    /\ ret = PyTrue
    /\ Len(yielded) >= 2
    /\ yielded[Len(yielded)].obj = endpoint_calls
    /\ \E k \in (Len(yielded) + 1)..count : items[k] = None

\* C37: one full iteration of a sequence just constructed at offset 0, the
\* endpoint returning min(limit, count - offset) records per call, brings the
\* number of endpoint calls, construction included, to
\* max(1, ceil(count / limit)).
C37_CallsOfFullIteration ==
    [][(/\ endpoint_calls = 1
        /\ \A k \in 1..count : IF k <= limit THEN items[k].obj = 1
                                            ELSE items[k] = None
        /\ op'.name = "iterate"
        /\ ret' # EndpointFailure)
       => endpoint_calls' = Max(1, (count + limit - 1) \div limit)]_vars

\* three records in pages of one: construction and two calls of the iteration
C37_Witness ==
    /\ op.name = "iterate"
    /\ ret # EndpointFailure
    /\ count = MaxCount
    /\ limit = 1
    /\ endpoint_calls = MaxCount
    /\ \A k \in 1..count : items[k].obj = k

\* C33: two page responses merged into the slots in either order resolve the
\* same indices with equal entities at every index, and a response merged a
\* second time changes no slot; for every state of the slots merges lead to,
\* every two page offsets and every length of either response.
C33_MergesCommute ==
    [][(op'.name \in {"merge", "merge_again"})
       => (/\ Resolved(items') = Resolved(mirror')
           /\ \A k \in 1..count :
                  items'[k] # None => ModelEq(items'[k], mirror'[k])
           /\ op'.name = "merge_again"
                => (items' = items /\ mirror' = mirror))]_vars

\* two nonempty pages over overlapping ranges have been merged in both
\* orders, each order keeping the object of the page it merged first
C33_Witness ==
    /\ op.name = "merge"
    /\ op.first < op.second
    /\ op.second < op.first + Len(yielded[1])
    /\ Len(yielded[2]) >= 1
    /\ \E k \in 1..count : /\ items[k] # None
                           /\ items[k].obj # mirror[k].obj
    /\ \E k \in 1..count : items[k] = None

\* -------------------------------------- claims: pool and completion signal
\* C36: in a pool of any size from 1 up, when every synchronous fetch returns,
\* every submitted call completes with a release: the waiters that occupy
\* worker threads never keep the producer they wait for from finishing.
C36_EveryCallResolves ==
    \A c \in Calls : (pc[c] = "queued") ~> (pc[c] = "done")

\* a producer is in its fetch, a waiter of its handle occupies the other
\* worker of a pool of two or more, and a third call is queued behind them
C36_Witness ==
    /\ workers >= 2
    /\ \E p \in Calls, w \in Calls, q \in Calls :
           /\ pc[p] = "fetching"
           /\ pc[w] = "wait"
           /\ event[w] = event[p]
           /\ pc[q] = "queued"
           /\ Busy = workers

\* C40: a requester that was handed a handle with in_progress = True and
\* has not returned from wait() when set_value has completed is not blocked:
\* its wait() returns, and the handle holds the published release it reads.
C40_NoLostWakeup ==
    \A w \in Calls, p \in Calls :
        (/\ pc[w] = "wait"
         /\ pc[p] = "done"
         /\ ~in_progress[p]
         /\ event[p] = event[w])
        => (/\ ENABLED Wait(w)
            /\ events[event[w]].value.kind = "CubeRelease"
            /\ events[event[w]].value = release[p])

\* the producer has returned from set_value and a requester holding its
\* handle has yet to return from wait()
C40_Witness ==
    \E w \in Calls, p \in Calls :
        /\ pc[w] = "wait"
        /\ in_progress[w]
        /\ pc[p] = "done"
        /\ ~in_progress[p]
        /\ event[p] = event[w]
        /\ result[p].kind = "CubeRelease"

\* ------------------------------ claims: cached results and lazy attributes
\* C38: once a result is stored, versioned_cubes(offset, limit, cached=True)
\* returns the stored result whatever offset and limit are and calls no
\* endpoint; versioned_cubes(..., cached=False) that returns has made one
\* endpoint call and stored the new result, for its own offset and limit, in
\* place of the old one.
C38_CachedIgnoresWindow ==
    [][(op'.name = "versioned_cubes" /\ ret' # EndpointFailure)
       => (/\ (op'.cached /\ vc_stored # None)
              => (/\ ret' = vc_stored
                  /\ vc_stored' = vc_stored
                  /\ vc_calls' = vc_calls)
           /\ ~op'.cached
              => (/\ vc_calls' = vc_calls + 1
                  /\ ret' = PaginatedResponse(op'.offset, op'.limit, vc_calls')
                  /\ vc_stored' = ret'
                  /\ vc_stored' # vc_stored))]_vars

\* a result stored by a second fetch is returned to a cached call that asked
\* for another offset and another limit
C38_Witness ==
    /\ op.name = "versioned_cubes"
    /\ op.cached
    /\ ret = vc_stored
    /\ ret.kind = "PaginatedResponse"
    /\ ret.obj >= 2
    /\ ret.obj = vc_calls
    /\ ret.offset # op.offset
    /\ ret.limit # op.limit

\* C39: an access of a lazily loaded attribute that fetched the release, the
\* fetched release carrying that attribute's field, leaves the attribute
\* loaded and returns the loaded value; an access of a loaded attribute
\* returns it without a fetch.
C39_FetchLoadsAttribute ==
    [][(op'.name \in LazyAttributes)
       => (/\ (release_fetches' # release_fetches
               /\ KeyOf(op'.name) \in detail)
              => (/\ loaded'[op'.name] # None
                  /\ ret' = loaded'[op'.name])
           /\ (release_fetches' = release_fetches)
              => ret' = loaded'[op'.name])]_vars


====
